---- MODULE Spec2Model ----
(***************************************************************************)
(* Gmail ingestion utility: the query builder, the cursor (last-run        *)
(* tracker) store, the ingestion run fetch_and_store_emails, and the       *)
(* gated scheduler job run_job.                                            *)
(*                                                                         *)
(* Four specifications share the variables:                               *)
(*   Spec       ingestion runs of GmailUtility (Gmail_utility.py)          *)
(*   QuerySpec  the two build_query functions applied to bounded inputs    *)
(*   SchedSpec  scheduler ticks of run_job (daily_run_job.py)              *)
(*   CursorSpec _save_last_timestamp interleaved with a concurrent         *)
(*              _load_last_timestamp                                       *)
(***************************************************************************)
EXTENDS Integers, Sequences, FiniteSets, TLC

VARIABLES
    cfg,              \* the [EMAIL] section of config.ini
    today,            \* datetime.today() as <<year, month, day>>
    tracker,          \* content of the cursor file at tracker_path
    output_csv,       \* content of the output table at output_csv
    job_stats,        \* rows of data/job_stats.xlsx
    pc,               \* position of the run inside fetch_and_store_emails
    processed_count,  \* self.processed_count
    error_count,      \* self.error_count
    query,            \* the query string built, as its sequence of clauses
    messages,         \* number of ids list_messages returned (ids 1..messages)
    idx,              \* index of the message the fetch loop is at
    records,          \* the local list records
    latest_date,      \* the local latest_date
    hist,             \* what the current run has observed and done so far
    runs,             \* number of runs started
    use_incremental,  \* argument of the last build_query call (QuerySpec)
    builder,          \* which build_query produced query (QuerySpec)
    ticks,            \* scheduler ticks so far (SchedSpec)
    invocations,      \* times run_job called subprocess.call (SchedSpec)
    gates,            \* what the environment was at the last tick (SchedSpec)
    wpc,              \* position of the writer inside _save_last_timestamp
    newval,           \* the date_str the writer is saving
    oldval,           \* the file content when the writer opened the file
    observed          \* what the concurrent reader's last load returned

vars == <<cfg, today, tracker, output_csv, job_stats, pc, processed_count,
          error_count, query, messages, idx, records, latest_date, hist, runs,
          use_incremental, builder, ticks, invocations, gates, wpc, newval,
          oldval, observed>>

runVars == <<output_csv, job_stats, pc, processed_count, error_count,
             messages, idx, records, latest_date, hist, runs>>
queryVars == <<use_incremental, builder>>
schedVars == <<ticks, invocations, gates>>
cursorVars == <<wpc, newval, oldval, observed>>

(***************************************************************************)
(* Bounds                                                                  *)
(***************************************************************************)
MaxMsgs == 2    \* messages one listing returns at most
MaxRuns == 2    \* ingestion runs
MaxTicks == 3   \* scheduler ticks

(***************************************************************************)
(* Dates. A date is <<year, month, day>>; the absent value (None, an unset *)
(* option, a missing file) is the empty tuple.                             *)
(***************************************************************************)
None == << >>
NoFile == << >>
EmptyFile == <<0>>     \* a file that exists and holds zero bytes

DateLT(a, b) ==
    \/ a[1] < b[1]
    \/ a[1] = b[1] /\ a[2] < b[2]
    \/ a[1] = b[1] /\ a[2] = b[2] /\ a[3] < b[3]

DateLE(a, b) == a = b \/ DateLT(a, b)

IsLeap(y) == (y % 4 = 0 /\ y % 100 # 0) \/ y % 400 = 0

\* calendar.monthrange(year, month)[1]
DaysInMonth(y, m) ==
    IF m = 2 THEN (IF IsLeap(y) THEN 29 ELSE 28)
    ELSE IF m \in {4, 6, 9, 11} THEN 30 ELSE 31

\* today.replace(day=1)
first_day(t) == <<t[1], t[2], 1>>
\* today.replace(day=calendar.monthrange(today.year, today.month)[1])
last_day(t) == <<t[1], t[2], DaysInMonth(t[1], t[2])>>

Feb28 == <<2024, 2, 28>>
Mar01 == <<2024, 3, 1>>
Mar15 == <<2024, 3, 15>>
MsgDates == {Feb28, Mar01, Mar15}
Todays == {<<2024, 2, 10>>, <<2023, 2, 28>>, <<2024, 4, 15>>, <<2024, 12, 31>>}

(***************************************************************************)
(* Cursor store                                                            *)
(***************************************************************************)
JSONDecodeError == <<0, 0>>

\* _load_last_timestamp: None when the file is missing, the stored value
\* otherwise; json.load raises on a file with no complete JSON document.
load_last_timestamp(file) ==
    IF file = NoFile THEN None
    ELSE IF file = EmptyFile THEN JSONDecodeError
    ELSE file

(***************************************************************************)
(* Query builder. A query is the sequence q_parts; " ".join(q_parts) of    *)
(* the empty sequence is the empty string.                                 *)
(***************************************************************************)
HasAttachmentValues == {"missing", "true", "false", "maybe"}

\* cfg.getboolean('has_attachment', fallback=False); "maybe" stands for a
\* value configparser does not accept as a boolean (it raises ValueError).
getboolean(v) == v = "true"

\* a call that raised instead of returning a query
Raised == [raised |-> TRUE, q |-> << >>]
Built(q) == [raised |-> FALSE, q |-> q]

sender_clauses(c) ==
    (IF c.from_email # "" THEN << <<"from", c.from_email>> >> ELSE << >>)
    \o (IF getboolean(c.has_attachment) THEN << <<"has:attachment">> >> ELSE << >>)
    \o (IF c.keyword # "" THEN << <<"keyword", c.keyword>> >> ELSE << >>)

\* GmailUtility.build_query
build_query(c, file, incr) ==
    IF c.has_attachment = "maybe" \/ (incr /\ file = EmptyFile) THEN Raised
    ELSE LET q1 == sender_clauses(c)
                   \o (IF c.after_date # None
                       THEN << <<"after", c.after_date>> >> ELSE << >>)
                   \o (IF c.before_date # None
                       THEN << <<"before", c.before_date>> >> ELSE << >>)
             last_ts == load_last_timestamp(file)
         IN  IF incr /\ last_ts # None
             THEN Built(q1 \o << <<"after", last_ts>> >>)
             ELSE Built(q1)

\* build_query of gmail_utility_api_server.py
build_query_api(c, file, incr, t) ==
    IF c.has_attachment = "maybe" \/ (incr /\ file = EmptyFile) THEN Raised
    ELSE LET defaulted == c.after_date = None \/ c.before_date = None
             after0 == IF defaulted THEN first_day(t) ELSE c.after_date
             before_date == IF defaulted THEN last_day(t) ELSE c.before_date
             last_ts == load_last_timestamp(file)
             after_date == IF incr /\ last_ts # None THEN last_ts ELSE after0
         IN  Built(sender_clauses(c)
                   \o << <<"after", after_date>>, <<"before", before_date>> >>)

Cfgs ==
    [from_email : {"", "a@b.com"},
     has_attachment : HasAttachmentValues,
     keyword : {"", "invoice"},
     after_date : {None, <<2024, 1, 1>>},
     before_date : {None, <<2024, 1, 31>>}]

NoGates ==
    [net |-> FALSE, avail |-> 50, total |-> 1000, os_name |-> "posix",
     window |-> 0, probe_ok |-> TRUE, idle_ms |-> 0]

\* the output table before any run wrote it
NoTable == [exists |-> FALSE, rows |-> << >>]

NoHist ==
    [cursorBefore |-> None, csvBefore |-> NoTable, statsBefore |-> 0,
     listed |-> FALSE, cursorWrites |-> 0, tableWrites |-> 0,
     visited |-> {}, failed |-> {}, listErrors |-> 0, uncaught |-> FALSE,
     caught |-> FALSE]

RunIdle ==
    /\ output_csv = NoTable /\ job_stats = << >> /\ pc = "idle"
    /\ processed_count = 0 /\ error_count = 0 /\ messages = 0 /\ idx = 0
    /\ records = << >> /\ latest_date = None /\ hist = NoHist /\ runs = 0
SchedIdle == ticks = 0 /\ invocations = 0 /\ gates = NoGates
Unread == <<0, 0, 0, 0>>     \* the reader has not loaded yet
CursorIdle == wpc = "idle" /\ newval = None /\ oldval = NoFile /\ observed = Unread
QueryIdle == use_incremental = TRUE /\ builder = "none"

QueryInit ==
    /\ cfg \in Cfgs
    /\ today \in Todays
    /\ tracker \in {NoFile, Feb28, Mar01}
    /\ query = << >>
    /\ QueryIdle /\ RunIdle /\ SchedIdle /\ CursorIdle

CallBuildQuery ==
    \E incr \in BOOLEAN :
        /\ use_incremental' = incr
        /\ LET r == build_query(cfg, tracker, incr)
           IN  /\ builder' = IF r.raised THEN "raised" ELSE "GmailUtility"
               /\ query' = r.q
        /\ UNCHANGED <<cfg, today, tracker, runVars, schedVars, cursorVars>>

CallBuildQueryApi ==
    \E incr \in BOOLEAN :
        /\ use_incremental' = incr
        /\ LET r == build_query_api(cfg, tracker, incr, today)
           IN  /\ builder' = IF r.raised THEN "raised" ELSE "api_server"
               /\ query' = r.q
        /\ UNCHANGED <<cfg, today, tracker, runVars, schedVars, cursorVars>>

QueryNext == CallBuildQuery \/ CallBuildQueryApi

QuerySpec == QueryInit /\ [][QueryNext]_vars

(***************************************************************************)
(* Values of the table. A value in memory is <<type, payload>>: a str, a   *)
(* list, or NaN. A text (a str's characters, a CSV cell) is a sequence of  *)
(* tokens; the empty text is the empty sequence.                           *)
(***************************************************************************)
Str(text) == <<"str", text>>
List(items) == <<"list", items>>
NaN == <<"nan", << >> >>

\* DataFrame.to_csv writes str(value) of a cell, and nothing for NaN
to_csv_cell(v) ==
    IF v[1] = "list" THEN <<"[">> \o v[2] \o <<"]">>
    ELSE IF v[1] = "nan" THEN << >>
    ELSE v[2]

\* pd.read_csv reads an empty cell as NaN and any other text as a str
read_csv_cell(text) == IF text = << >> THEN NaN ELSE Str(text)

Columns == {"Subject", "From", "Date", "Body", "Attachments"}

to_csv(df) == [i \in 1..Len(df) |-> [c \in Columns |-> to_csv_cell(df[i][c])]]
read_csv(file) == [i \in 1..Len(file) |-> [c \in Columns |-> read_csv_cell(file[i][c])]]

\* a list is unhashable
hashable(v) == v[1] # "list"

RECURSIVE keep_first(_, _)
keep_first(df, seen) ==
    IF df = << >> THEN << >>
    ELSE IF Head(df) \in seen THEN keep_first(Tail(df), seen)
    ELSE <<Head(df)>> \o keep_first(Tail(df), seen \cup {Head(df)})

\* a call that raised TypeError instead of returning a frame
TypeError == [raised |-> TRUE, df |-> << >>]
Frame(df) == [raised |-> FALSE, df |-> df]

\* DataFrame.drop_duplicates hashes every cell of every column: it raises
\* TypeError (unhashable type: 'list') on a list, and otherwise keeps the
\* first of equal rows. The Attachments cell of a freshly extracted record is
\* always a list; the rows read back from the file hold its text instead.
drop_duplicates(df) ==
    IF \E i \in 1..Len(df) : \E c \in Columns : ~hashable(df[i][c])
    THEN TypeError
    ELSE Frame(keep_first(df, {}))

(***************************************************************************)
(* Messages of the Message Source. A Date header is <<format, date>>:      *)
(* "padded" is "Wed, 28 Feb 2024 10:00:00 +0000" (two-digit day),          *)
(* "unpadded" is "Fri, 1 Mar 2024 10:00:00 +0000" (one-digit day).         *)
(***************************************************************************)
Mail ==
    {[Subject |-> <<"invoice">>, Date |-> <<"padded", Feb28>>, parts |-> << >>],
     [Subject |-> <<"receipt">>, Date |-> <<"padded", Mar15>>, parts |-> <<"f.pdf">>],
     [Subject |-> <<"invoice">>, Date |-> <<"unpadded", Mar01>>, parts |-> << >>]}

\* get_message_detail returns {} when the API call fails
EmptyDetail == [Subject |-> << >>, Date |-> << >>, parts |-> << >>]

\* extract_metadata, given the list download_attachments returned
extract_metadata(detail, attachments) ==
    [Subject |-> Str(detail.Subject),
     From |-> Str(IF detail = EmptyDetail THEN << >> ELSE <<"a@b.com">>),
     Date |-> Str(detail.Date),
     Body |-> Str(IF detail = EmptyDetail THEN << >> ELSE <<"body">>),
     Attachments |-> List(attachments)]

ValueError == <<-1>>

\* datetime.strptime(meta['Date'][:16], '%a, %d %b %Y'): the first 16
\* characters are exactly the date only when the day has two digits; a
\* one-digit day leaves a trailing blank and an empty header matches nothing.
strptime16(header) ==
    IF Len(header) = 2 /\ header[1] = "padded" THEN header[2] ELSE ValueError

\* the comparison with latest_date left out: the last parsed date wins
track_latest_last(latest, header) ==
    LET msg_date == strptime16(header)
    IN  IF msg_date = ValueError THEN latest ELSE msg_date

\* latest_date after one more record's Date has been looked at
track_latest(latest, header) ==
    LET msg_date == strptime16(header)
    IN  IF msg_date = ValueError THEN latest
        ELSE IF latest = None \/ DateLT(latest, msg_date) THEN msg_date
        ELSE latest

\* latest_date.strftime('%Y/%m/%d')
strftime(d) == d

(***************************************************************************)
(* Ingestion run: GmailUtility() followed by fetch_and_store_emails()      *)
(***************************************************************************)
DefaultCfg ==
    [from_email |-> "a@b.com", has_attachment |-> "missing", keyword |-> "",
     after_date |-> None, before_date |-> None]

\* a config.ini whose has_attachment is not a boolean
BadCfg ==
    [from_email |-> "", has_attachment |-> "maybe", keyword |-> "invoice",
     after_date |-> <<2024, 1, 1>>, before_date |-> None]

RunCfgs == {DefaultCfg, BadCfg}

\* Before the first run there is no output table and no statistics; the
\* cursor file is at its own configured path (last_run_tracker) and may
\* already hold a date.
Init ==
    /\ cfg \in RunCfgs
    /\ today = <<2024, 4, 15>>
    /\ tracker \in {NoFile, Mar01}
    /\ query = << >>
    /\ RunIdle /\ QueryIdle /\ SchedIdle /\ CursorIdle

outside == <<cfg, today, queryVars, schedVars, cursorVars>>

\* __init__ and entry into the try block. A run is one job on its own
\* instance: job_start_time is taken in __init__, where both counters start
\* at zero, and run_job starts the script as a new process each time.
Construct ==
    /\ pc \in {"idle", "done"}
    /\ runs < MaxRuns
    /\ runs' = runs + 1
    /\ processed_count' = 0
    /\ error_count' = 0
    /\ query' = << >> /\ messages' = 0 /\ idx' = 0
    /\ records' = << >> /\ latest_date' = None
    /\ hist' = [NoHist EXCEPT !.cursorBefore = tracker, !.csvBefore = output_csv,
                              !.statsBefore = Len(job_stats)]
    /\ pc' = "build"
    /\ UNCHANGED <<tracker, output_csv, job_stats, outside>>

\* query = self.build_query()
BuildQueryStep ==
    /\ pc = "build"
    /\ LET r == build_query(cfg, tracker, TRUE)
       IN  IF r.raised
           THEN /\ pc' = "except"
                /\ hist' = [hist EXCEPT !.uncaught = TRUE]
                /\ UNCHANGED query
           ELSE /\ pc' = "list"
                /\ query' = r.q
                /\ UNCHANGED hist
    /\ UNCHANGED <<tracker, output_csv, job_stats, processed_count, error_count,
                   messages, idx, records, latest_date, runs, outside>>

\* messages = self.list_messages(query): an API error is counted and gives []
ListStep ==
    /\ pc = "list"
    /\ \E api_ok \in BOOLEAN : \E n \in 0..MaxMsgs :
        /\ api_ok \/ n = 0
        /\ messages' = n
        /\ error_count' = IF api_ok THEN error_count ELSE error_count + 1
        /\ hist' = [hist EXCEPT !.listed = TRUE,
                                !.listErrors = IF api_ok THEN 0 ELSE 1]
        /\ idx' = 1
        /\ pc' = IF n = 0 THEN "persist" ELSE "loop"
    /\ UNCHANGED <<tracker, output_csv, job_stats, processed_count, query,
                   records, latest_date, runs, outside>>

\* download_attachments: the saved path of every attachment part
download_attachments(detail) == detail.parts

\* One pass of the for loop: get_message_detail, extract_metadata,
\* records.append, processed_count += 1, and the date tracking.
LoopStep ==
    /\ pc = "loop"
    /\ idx <= messages
    /\ \E fetch_ok \in BOOLEAN : \E m \in Mail : \E download_ok \in BOOLEAN :
        LET detail == IF fetch_ok THEN m ELSE EmptyDetail
            meta == extract_metadata(detail, download_attachments(detail))
            seen == [hist EXCEPT !.visited = @ \cup {idx}]
        IN  /\ download_ok \/ detail.parts # << >>
            /\ error_count' = IF fetch_ok THEN error_count ELSE error_count + 1
            /\ IF download_ok
               THEN /\ records' = Append(records, meta)
                    /\ processed_count' = processed_count + 1
                    /\ latest_date' = track_latest(latest_date, meta.Date[2])
                    /\ hist' = IF fetch_ok THEN seen
                               ELSE [seen EXCEPT !.failed = @ \cup {idx}]
                    /\ idx' = idx + 1
                    /\ pc' = IF idx = messages THEN "persist" ELSE "loop"
               ELSE \* attachments().get(...).execute() raised inside extract_metadata
                    /\ hist' = [seen EXCEPT !.failed = @ \cup {idx}, !.uncaught = TRUE]
                    /\ pc' = "except"
                    /\ UNCHANGED <<records, processed_count, latest_date, idx>>
    /\ UNCHANGED <<tracker, output_csv, job_stats, query, messages, runs, outside>>

\* _save_last_timestamp, seen from the single-threaded run
save_last_timestamp(date_str) == date_str

\* the guard left out: an empty frame is written like any other
no_records_never(recs) == FALSE

\* if not records
no_records(recs) == recs = << >>

\* From "if not records" to the cursor save
PersistStep ==
    /\ pc = "persist"
    /\ IF no_records(records)
       THEN \* "No new emails found.": return
            /\ pc' = "finally"
            /\ UNCHANGED <<output_csv, tracker, hist>>
       ELSE LET df == IF output_csv.exists
                      THEN drop_duplicates(read_csv(output_csv.rows) \o records)
                      ELSE Frame(records)
            IN  \E write_ok \in BOOLEAN :
                  IF df.raised \/ ~write_ok
                  THEN /\ pc' = "except"
                       /\ hist' = [hist EXCEPT !.uncaught = TRUE]
                       /\ UNCHANGED <<output_csv, tracker>>
                  ELSE /\ output_csv' = [exists |-> TRUE, rows |-> to_csv(df.df)]
                       /\ tracker' = IF latest_date # None
                                     THEN save_last_timestamp(strftime(latest_date))
                                     ELSE tracker
                       /\ hist' = [hist EXCEPT
                                     !.tableWrites = @ + 1,
                                     !.cursorWrites = IF latest_date # None
                                                      THEN @ + 1 ELSE @]
                       /\ pc' = "finally"
    /\ UNCHANGED <<job_stats, processed_count, error_count, query, messages, idx,
                   records, latest_date, runs, outside>>

\* a handler that logs and raises again
ExceptStep_reraise ==
    /\ pc = "except"
    /\ pc' = "finally"
    /\ hist' = [hist EXCEPT !.caught = TRUE]
    /\ UNCHANGED <<tracker, output_csv, job_stats, processed_count, error_count,
                   query, messages, idx, records, latest_date, runs, outside>>

\* except Exception as e: logging.exception(...)
ExceptStep ==
    /\ pc = "except"
    /\ pc' = "finally"
    /\ hist' = [hist EXCEPT !.uncaught = FALSE, !.caught = TRUE]
    /\ UNCHANGED <<tracker, output_csv, job_stats, processed_count, error_count,
                   query, messages, idx, records, latest_date, runs, outside>>

\* the row _log_job_stats builds
stats_row(processed, errors) ==
    [Emails_Processed |-> processed,
     Errors_Encountered |-> errors,
     Status |-> IF errors = 0 THEN "Completed" ELSE "Completed with errors"]

\* finally: self._log_job_stats(), then the return to the caller (the
\* locals of fetch_and_store_emails end with it)
log_job_stats ==
    /\ pc = "finally"
    /\ job_stats' = Append(job_stats, stats_row(processed_count, error_count))
    /\ pc' = IF hist.uncaught THEN "crashed" ELSE "done"
    /\ query' = << >> /\ idx' = 0 /\ records' = << >> /\ latest_date' = None
    /\ hist' = [hist EXCEPT !.visited = {}, !.failed = {}]
    /\ UNCHANGED <<tracker, output_csv, processed_count, error_count, messages,
                   runs, outside>>

Next ==
    \/ Construct
    \/ BuildQueryStep
    \/ ListStep
    \/ LoopStep
    \/ PersistStep
    \/ ExceptStep
    \/ log_job_stats

Spec == Init /\ [][Next]_vars

\* a run that has started is executed statement by statement to its return
RunStep ==
    BuildQueryStep \/ ListStep \/ LoopStep \/ PersistStep \/ ExceptStep
        \/ log_job_stats

(***************************************************************************)
(* Scheduler job run_job (daily_run_job.py)                                *)
(***************************************************************************)
min_ram_free == 10
max_idle_minutes == 5

\* what a tick can find: the network, psutil.virtual_memory(), and the
\* platform's idle probe (GetForegroundWindow on nt, xprintidle elsewhere)
Envs ==
    [net : BOOLEAN, avail : {50, 100, 101}, total : {1000},
     os_name : {"nt", "posix"}, window : {0, 7}, probe_ok : BOOLEAN,
     idle_ms : {0, 299999, 300000}]

is_internet_connected(e) == e.net

\* mem.available * 100 / mem.total > threshold, in exact arithmetic
is_ram_free(e, threshold) == e.avail * 100 > threshold * e.total

is_laptop_active(e) ==
    IF ~e.probe_ok THEN TRUE
    ELSE IF e.os_name = "nt" THEN e.window # 0
    ELSE (e.idle_ms \div 1000) < max_idle_minutes * 60

\* the free-RAM check left out
conditions_met_no_ram(e) ==
    /\ is_internet_connected(e)
    /\ is_laptop_active(e)

\* the three early returns of run_job
conditions_met(e) ==
    /\ is_internet_connected(e)
    /\ is_ram_free(e, min_ram_free)
    /\ is_laptop_active(e)

SchedInit ==
    /\ cfg = DefaultCfg
    /\ today = <<2024, 4, 15>>
    /\ tracker = NoFile
    /\ query = << >>
    /\ RunIdle /\ QueryIdle /\ SchedIdle /\ CursorIdle

\* one scheduler tick: run_job from entry to return
run_job ==
    /\ ticks < MaxTicks
    /\ \E e \in Envs :
        /\ gates' = e
        /\ ticks' = ticks + 1
        /\ invocations' = IF conditions_met(e) THEN invocations + 1 ELSE invocations
    /\ UNCHANGED <<cfg, today, tracker, query, runVars, queryVars, cursorVars>>

SchedNext == run_job

SchedSpec == SchedInit /\ [][SchedNext]_vars

(***************************************************************************)
(* _save_last_timestamp against a concurrent _load_last_timestamp          *)
(***************************************************************************)
CursorInit ==
    /\ cfg = DefaultCfg
    /\ today = <<2024, 4, 15>>
    /\ tracker \in {NoFile} \cup MsgDates
    /\ query = << >>
    /\ RunIdle /\ QueryIdle /\ SchedIdle /\ CursorIdle

\* with open(self.tracker_path, 'w') as f: the file is created or truncated
SaveOpen ==
    /\ wpc = "idle"
    /\ \E date_str \in MsgDates :
        /\ newval' = date_str
        /\ oldval' = tracker
        /\ tracker' = EmptyFile
        /\ wpc' = "open"
    /\ UNCHANGED <<cfg, today, query, observed, runVars, queryVars, schedVars>>

\* json.dump(...) into the file's buffer, flushed when the with block closes it
SaveDumpClose ==
    /\ wpc = "open"
    /\ tracker' = newval
    /\ wpc' = "idle"
    /\ UNCHANGED <<cfg, today, query, newval, oldval, observed, runVars,
                   queryVars, schedVars>>

\* a concurrent reader's _load_last_timestamp
Load ==
    /\ observed' = load_last_timestamp(tracker)
    /\ UNCHANGED <<cfg, today, tracker, query, wpc, newval, oldval, runVars,
                   queryVars, schedVars>>

CursorNext == SaveOpen \/ SaveDumpClose \/ Load

CursorSpec == CursorInit /\ [][CursorNext]_vars

(***************************************************************************)
(* Properties                                                              *)
(***************************************************************************)
InRun == pc \in {"build", "list", "loop", "persist", "except", "finally"}

\* the dates of the run's records that strptime parsed
ParsedDates(recs) ==
    {strptime16(recs[i].Date[2]) : i \in 1..Len(recs)} \ {ValueError}

MaxDate(S) == CHOOSE d \in S : \A e \in S : DateLE(e, d)

AfterClauses(q) == SelectSeq(q, LAMBDA clause : clause[1] = "after")

\* C1: the date stored in the cursor file never decreases from one state of
\* a sequence of ingestion runs to the next.
C1_CursorNeverDecreases ==
    [][tracker # NoFile => tracker' # NoFile /\ DateLE(tracker, tracker')]_vars

\* C2: a run whose listing yields zero messages leaves the output table and
\* the cursor file as they were and appends exactly one job-statistics row,
\* with Emails_Processed = 0.
C2_ZeroMessagesRun ==
    (pc = "done" /\ hist.listed /\ messages = 0) =>
        /\ output_csv = hist.csvBefore
        /\ tracker = hist.cursorBefore
        /\ Len(job_stats) = hist.statsBefore + 1
        /\ job_stats[Len(job_stats)].Emails_Processed = 0

C2_Witness ==
    /\ pc = "done" /\ hist.listed /\ messages = 0 /\ hist.listErrors = 0
    /\ runs = 2 /\ output_csv.exists /\ tracker # NoFile
    /\ Len(job_stats) = 2

C3_Safe ==
    /\ pc # "crashed"
    /\ InRun => Len(job_stats) = hist.statsBefore
    /\ pc = "done" => Len(job_stats) = hist.statsBefore + 1

\* statements still ahead of the run on its longest way to the return
Rank ==
    CASE pc = "build" -> MaxMsgs + 6
      [] pc = "list" -> MaxMsgs + 5
      [] pc = "loop" -> 4 + (messages - idx)
      [] pc = "persist" -> 3
      [] pc = "except" -> 2
      [] pc = "finally" -> 1
      [] OTHER -> 0

\* C3: every run, whatever raised inside it, appends exactly one job
\* statistics row (none before the finally block) and then returns normally.
\* It gets there: a run under way can always take its next step, and every
\* step brings it nearer to the return.
C3_RunAlwaysLogsAndReturns ==
    /\ []C3_Safe
    /\ [](InRun => ENABLED RunStep)
    /\ [][InRun => (Rank' < Rank /\ Rank' >= 0)]_vars

C3_Witness ==
    /\ pc = "done" /\ hist.caught /\ hist.listed /\ messages > 0
    /\ Len(job_stats) = hist.statsBefore + 1

\* C4: at the end of the fetch loop every listed message has been visited,
\* each message whose retrieval or extraction failed has no row in records,
\* and each such failure was counted in error_count.
C4_FailingMessageSkipped ==
    (pc = "finally" /\ hist.listed) =>
        /\ hist.visited = 1..messages
        /\ Len(records) = messages - Cardinality(hist.failed)
        /\ error_count = hist.listErrors + Cardinality(hist.failed)

\* C5: a query built with use_incremental = true while a cursor is stored
\* has exactly one after-clause, and it carries the cursor value.
C5_CursorOverridesAfter ==
    (builder \in {"GmailUtility", "api_server"} /\ use_incremental
        /\ tracker # NoFile) =>
        AfterClauses(query) = << <<"after", tracker>> >>

\* C6: with after_date or before_date not configured and no cursor override,
\* the query ends with after:<first day> before:<last day> of the current
\* month (so it is never the empty string).
C6_DefaultsToCurrentMonth ==
    (builder \in {"GmailUtility", "api_server"}
        /\ (cfg.after_date = None \/ cfg.before_date = None)
        /\ ~(use_incremental /\ tracker # NoFile)) =>
        /\ Len(query) >= 2
        /\ query[Len(query) - 1] = <<"after", first_day(today)>>
        /\ query[Len(query)] = <<"before", last_day(today)>>

\* C7: the output table never holds two rows equal in all of Subject, From,
\* Date, Body and Attachments.
C7_NoDuplicateRows ==
    \A i, j \in 1..Len(output_csv.rows) :
        i # j => output_csv.rows[i] # output_csv.rows[j]

\* C8: a step invokes the ingestion script only as a tick whose three gates
\* all pass on that tick, and then exactly once; a tick with a failing gate
\* invokes nothing, and nothing is invoked between ticks.
C8_InvokedOnlyWhenGatesPass ==
    [][/\ invocations' # invocations =>
            /\ ticks' = ticks + 1
            /\ invocations' = invocations + 1
            /\ is_internet_connected(gates')
            /\ is_ram_free(gates', min_ram_free)
            /\ is_laptop_active(gates')
       /\ (ticks' = ticks + 1 /\ invocations' = invocations) =>
            \/ ~is_internet_connected(gates')
            \/ ~is_ram_free(gates', min_ram_free)
            \/ ~is_laptop_active(gates')]_vars

C8_Witness ==
    /\ ticks = 3 /\ invocations = 1
    /\ gates.net /\ gates.avail = 101 /\ gates.os_name = "posix"
    /\ gates.probe_ok /\ gates.idle_ms = 299999

\* C9: a load that runs while a save is in progress returns the complete old
\* value or the complete new value.
C9_ReaderSeesOldOrNew ==
    [][(wpc = "open" /\ observed' # observed) =>
          observed' \in {load_last_timestamp(oldval), newval}]_vars

\* C10: a run writes the cursor at most once, only together with a
\* successful write of the output table and only if some record's Date
\* parsed; the value written is the maximum parsed date of the run; every
\* record of the run, parsed or not, is a row of the table written; a run
\* that does not write the cursor leaves it as it was.
C10_CursorWrite ==
    pc = "finally" =>
        /\ hist.cursorWrites <= 1
        /\ hist.cursorWrites = 1 =>
              /\ hist.tableWrites = 1
              /\ ParsedDates(records) # {}
              /\ tracker = MaxDate(ParsedDates(records))
        /\ hist.cursorWrites = 0 => tracker = hist.cursorBefore
        /\ (hist.tableWrites = 1 /\ ParsedDates(records) # {}) =>
              hist.cursorWrites = 1
        /\ hist.tableWrites = 1 =>
              \A i \in 1..Len(records) :
                  \E k \in 1..Len(output_csv.rows) :
                      output_csv.rows[k] = to_csv(<<records[i]>>)[1]

C10_Witness ==
    /\ pc = "finally" /\ hist.cursorWrites = 1 /\ Len(records) = 2
    /\ strptime16(records[1].Date[2]) = Mar15
    /\ strptime16(records[2].Date[2]) = ValueError
    /\ tracker = Mar15 /\ hist.cursorBefore = Mar01

====
